---- MODULE Spec2Model ----
(***************************************************************************)
(* Booking core of the study platform: the plpgsql function                *)
(* public.create_booking_safe (supabase/ADD_EVENT_TYPES_AND_PARTICIPANT_   *)
(* DATA.sql) run by concurrent callers against the shared bookings and     *)
(* events tables under PostgreSQL's READ COMMITTED isolation.  Every SQL   *)
(* statement of the function reads the rows committed when the statement   *)
(* starts; SELECT ... FOR UPDATE waits for, takes and keeps row locks      *)
(* until the call returns; now() is the start time of the transaction.     *)
(***************************************************************************)
EXTENDS Integers, Sequences, FiniteSets, TLC

\* ---------------------------------------------------------------- bounds
MaxUsers == 2        \* users
MaxCalls == 2        \* caller slots: calls in flight at the same time
MaxTicks == 1        \* steps of the clock
TickHours == 24      \* hours in a step of the clock
MaxBookings == 2     \* rows of the bookings table
MaxAttendance == 1   \* rows of the participant data table

\* ------------------------------------------------------------- constants
\* null ids
NoUser == 0
NoEvent == "none"
MissingEvent == "E0"
NoBooking == << >>

Users == 1..MaxUsers
Calls == 1..MaxCalls

\* The events table.  Administrators create events; no operation of the
\* booking core writes it.
EventTable ==
  [ A1 |-> [event_type |-> "fun_assessment_day", date_time |-> 10, max_capacity |-> 1],
    A2 |-> [event_type |-> "fun_assessment_day", date_time |-> 48, max_capacity |-> 2],
    S1 |-> [event_type |-> "dexa_scan",          date_time |-> 24, max_capacity |-> 1],
    T1 |-> [event_type |-> "touchpoints",        date_time |-> 47, max_capacity |-> 2],
    T2 |-> [event_type |-> "touchpoints",        date_time |-> 72, max_capacity |-> 1] ]

EventIds == DOMAIN EventTable

VARIABLES
  now,          \* the wall clock, in hours
  events,       \* public.events: id -> row
  bookings,     \* public.bookings: the committed rows
  attendance,   \* public.event_participant_data: the (event, user) keys of the
                \* rows whose attendance flag is true
  call,         \* per caller slot: the create_booking_safe call in flight,
                \* or the request and result of the call that returned last
  cancelled,    \* the last CancelBooking call: its booking and its result
  missions      \* the last getUserMissions call on the data as they are
                \* now: the user it was for and the list it returned

vars == << now, events, bookings, attendance, call, cancelled, missions >>

\* ------------------------------------------------- results of the function
\* jsonb_build_object('success', .., 'error', .., 'booking_id', ..)
Result(success, error, booking_id) ==
  [success |-> success, error |-> error, booking_id |-> booking_id]

NoResult == Result(FALSE, "", NoBooking)

InvalidInput == "Invalid input: user_id and event_id are required"
Unauthenticated == "Not authenticated"
Unauthorized == "Unauthorized: can only create bookings for yourself"
AlreadyBooked == "You are already booked for this event"
NotFound == "Event not found"
EventInPast == "Cannot book past events"
EventFull == "Event is fully booked"
InternalDeadlock == "Failed to create booking: deadlock detected"

\* Lines 199-204: the message names the event type.
CategoryConflict(event_type) ==
  "You already have a confirmed booking for a "
  \o (CASE event_type = "fun_assessment_day" -> "FUN/Assessment Day"
        [] event_type = "dexa_scan" -> "DEXA Scan"
        [] OTHER -> event_type)
  \o " event. Please cancel your existing booking first."

CategoryConflicts == {CategoryConflict(t) : t \in {"fun_assessment_day", "dexa_scan", "touchpoints"}}

Fail(error) == Result(FALSE, error, NoBooking)
Success(booking_id) == Result(TRUE, "", booking_id)

AllTypesRestricted == {"fun_assessment_day", "dexa_scan", "touchpoints"}

\* Line 186: the event types with a single active booking per user.
RestrictedTypes == {"fun_assessment_day", "dexa_scan"}

\* ------------------------------------------------------------- the store
BookingRow(id, user_id, event_id, status) ==
  [id |-> id, user_id |-> user_id, event_id |-> event_id, status |-> status]

AnyStatus(rows) == rows

Confirmed(rows) == {b \in rows : b.status = "confirmed"}

\* select id from bookings where user_id = u and event_id = e and status = 'confirmed'
ConfirmedFor(rows, u, e) == {b \in Confirmed(rows) : b.user_id = u /\ b.event_id = e}

\* select count(*) from bookings where event_id = e and status = 'confirmed'
ConfirmedCount(rows, e) == Cardinality({b \in Confirmed(rows) : b.event_id = e})

\* bookings b join events e where b.user_id = u and b.status = 'confirmed'
\*   and e.event_type = t and e.date_time >= now()
SameTypeBookings(rows, evs, u, t, txnow) ==
  {b \in Confirmed(rows) : /\ b.user_id = u
                           /\ b.event_id \in DOMAIN evs
                           /\ evs[b.event_id].event_type = t
                           /\ evs[b.event_id].date_time >= txnow}

\* gen_random_uuid(): a fresh id; the (user, event, generation) triple is
\* one that no earlier row carries.
ReusedBookingId(rows, u, e) == << u, e, 0 >>

NewBookingId(rows, u, e) ==
  << u, e, Cardinality({b \in rows : b.user_id = u /\ b.event_id = e}) >>

\* -------------------------------------------------------------- row locks
EventLock(e) == << "events", e >>
BookingLock(id) == << "bookings", id >>

NoRowLock(p, row) == FALSE

\* for update: the row is locked by the transaction of another call.
HeldByOther(p, row) == \E q \in Calls \ {p} : row \in call[q].locks

IdleCall ==
  [pc |-> "idle", requester |-> NoUser, user |-> NoUser, event |-> NoEvent,
   txnow |-> 0, locks |-> {}, cands |-> {}, cur |-> NoBooking,
   result |-> NoResult]

\* What a slot keeps of a call that returned: the session and the ids it was
\* called with, and the result.
Returned(requester, user, event, res) ==
  [IdleCall EXCEPT !.pc = "done", !.requester = requester, !.user = user,
                   !.event = event, !.result = res]

\* The function returns: the transaction ends and its row locks are released.
Return(p, res) ==
  call' = [call EXCEPT ![p] =
             Returned(call[p].requester, call[p].user, call[p].event, res)]

InFlight == {p \in Calls : call[p].pc \notin {"idle", "done"}}

Goto(p, pc) == call' = [call EXCEPT ![p].pc = pc]

\* The slot a new call takes: the first unused one, or else the first one
\* whose call has returned.
FreeSlot(p) ==
  LET idle == {q \in Calls : call[q].pc = "idle"}
      done == {q \in Calls : call[q].pc = "done"}
  IN IF idle # {} THEN p \in idle /\ \A q \in idle : p <= q
     ELSE p \in done /\ \A q \in done : p <= q

\* CancelResult: the booking the call was for and what it returned.
CancelResult(booking_id, res) == [booking_id |-> booking_id, result |-> res]

NoCancel == CancelResult(NoBooking, "none")

\* The user a getUserMissions call was for and the list it returned.
MissionList(userId, list) == [userId |-> userId, list |-> list]

\* No getUserMissions call has returned yet.
NoMissions == MissionList(NoUser, << >>)

\* ------------------------------------------------------------------ Init
Init ==
  /\ now = 0
  /\ events = EventTable
  /\ bookings = {}
  /\ attendance = {}
  /\ call = [p \in Calls |-> IdleCall]
  /\ cancelled = NoCancel
  /\ missions = NoMissions

\* ------------------------------------------------ create_booking_safe
NoMismatch(requester, user) == FALSE

\* Line 136: v_authenticated_user_id != p_user_id.
Mismatch(requester, user) == requester # user

\* Lines 117-142: a call starts; now() is fixed; input and identity checks.
StartCall(p, requester, user, event) ==
  /\ LET c == [IdleCall EXCEPT !.requester = requester, !.user = user,
                               !.event = event, !.txnow = now]
         err == IF user = NoUser \/ event = NoEvent THEN InvalidInput
                ELSE IF requester = NoUser THEN Unauthenticated
                ELSE IF Mismatch(requester, user) THEN Unauthorized
                ELSE ""
     IN call' = [call EXCEPT ![p] =
                   IF err # "" THEN Returned(requester, user, event, Fail(err))
                   ELSE [c EXCEPT !.pc = "lookup"]]
  /\ UNCHANGED << now, events, bookings, attendance, cancelled, missions >>

\* A caller invokes the function while the bookings table has room.
Begin(p, requester, user, event) ==
  /\ FreeSlot(p)
  /\ Cardinality(bookings) + Cardinality(InFlight) < MaxBookings
  /\ StartCall(p, requester, user, event)

LookupSkipped(p) ==
  /\ call[p].pc = "lookup"
  /\ Goto(p, "lockEvent")
  /\ UNCHANGED << now, events, bookings, attendance, cancelled, missions >>

\* Lines 145-150: the lookup of an existing confirmed booking reads the
\* committed rows; a row it finds has to be locked before it is returned.
LookupExisting(p) ==
  /\ call[p].pc = "lookup"
  /\ LET found == ConfirmedFor(bookings, call[p].user, call[p].event)
     IN IF found = {}
        THEN Goto(p, "lockEvent")
        ELSE \E b \in found :
               call' = [call EXCEPT ![p].pc = "lockExisting", ![p].cur = b.id]
  /\ UNCHANGED << now, events, bookings, attendance, cancelled, missions >>

\* Lines 150-158: the row lock is granted; the row is re-read and returned
\* only if it is still confirmed.
LockExisting(p) ==
  /\ call[p].pc = "lockExisting"
  /\ ~HeldByOther(p, BookingLock(call[p].cur))
  /\ IF \E b \in Confirmed(bookings) : b.id = call[p].cur
     THEN Return(p, Fail(AlreadyBooked))
     ELSE call' = [call EXCEPT ![p].pc = "lockEvent", ![p].cur = NoBooking]
  /\ UNCHANGED << now, events, bookings, attendance, cancelled, missions >>

NeverPast(date_time, txnow) == FALSE

IsPastByADay(date_time, txnow) == date_time + TickHours < txnow

\* The past-event check of line 175.
IsPast(date_time, txnow) == date_time < txnow

\* Lines 161-181: lock and read the event row, then the past-event check.
LockEvent(p) ==
  /\ call[p].pc = "lockEvent"
  /\ LET e == call[p].event IN
     IF e \notin DOMAIN events
     THEN Return(p, Fail(NotFound))
     ELSE /\ ~HeldByOther(p, EventLock(e))
          /\ IF IsPast(events[e].date_time, call[p].txnow)
             THEN Return(p, Fail(EventInPast))
             ELSE call' = [call EXCEPT
                    ![p].locks = @ \cup {EventLock(e)},
                    ![p].pc = IF events[e].event_type \in RestrictedTypes
                              THEN "sameType" ELSE "insert"]
  /\ UNCHANGED << now, events, bookings, attendance, cancelled, missions >>

\* Lines 186-194: the same-type query reads the committed rows.  Each row it
\* matched is then locked (booking row, then its event row) before the
\* first one is returned; select into takes the first row, in the order of
\* the scan, which the query leaves open.
SameTypeCheck(p) ==
  /\ call[p].pc = "sameType"
  /\ LET found == SameTypeBookings(bookings, events, call[p].user,
                                   events[call[p].event].event_type, call[p].txnow)
     IN IF found = {}
        THEN Goto(p, "insert")
        ELSE \E b \in found :
               call' = [call EXCEPT ![p].pc = "lockSameB",
                                    ![p].cands = {x.id : x \in found},
                                    ![p].cur = b.id]
  /\ UNCHANGED << now, events, bookings, attendance, cancelled, missions >>

\* Line 194 (for update, bookings row): the lock is granted; a row that is
\* no longer confirmed is skipped and the scan moves to the next match.
LockSameBooking(p) ==
  /\ call[p].pc = "lockSameB"
  /\ ~HeldByOther(p, BookingLock(call[p].cur))
  /\ IF \E b \in Confirmed(bookings) : b.id = call[p].cur
     THEN call' = [call EXCEPT ![p].pc = "lockSameE",
                               ![p].locks = @ \cup {BookingLock(call[p].cur)}]
     ELSE LET rest == call[p].cands \ {call[p].cur} IN
          IF rest = {}
          THEN call' = [call EXCEPT ![p].pc = "insert", ![p].cands = {},
                                    ![p].cur = NoBooking]
          ELSE \E id \in rest :
                 call' = [call EXCEPT ![p].cands = rest, ![p].cur = id]
  /\ UNCHANGED << now, events, bookings, attendance, cancelled, missions >>

EventOf(rows, id) == (CHOOSE b \in rows : b.id = id).event_id

\* Lines 194-207 (for update, events row): the lock on the joined event row
\* is granted, the row is returned and the call fails with the conflict.
LockSameEvent(p) ==
  /\ call[p].pc = "lockSameE"
  /\ ~HeldByOther(p, EventLock(EventOf(bookings, call[p].cur)))
  /\ Return(p, Fail(CategoryConflict(events[call[p].event].event_type)))
  /\ UNCHANGED << now, events, bookings, attendance, cancelled, missions >>

HasRoomInclusive(count, max_capacity) == count <= max_capacity

\* The condition of the insert (line 223).
HasRoom(count, max_capacity) == count < max_capacity

NoUniqueIndex(rows, u, e) == FALSE

\* The unique index on confirmed (user, event) rows that the handler of
\* line 242 answers to.
UniqueViolation(rows, u, e) == ConfirmedFor(rows, u, e) # {}

\* An insert whose key an uncommitted row of another call carries waits for
\* that call to end.
UniqueWait(p, u, e) ==
  \E q \in Calls \ {p} :
     call[q].pc = "commit" /\ call[q].user = u /\ call[q].event = e

\* Lines 214-233, 242-249: the conditional insert counts the committed
\* confirmed rows of the event; the row it inserts stays invisible to the
\* other calls until the function has returned and the transaction commits.
InsertBooking(p) ==
  /\ call[p].pc = "insert"
  /\ LET u == call[p].user
         e == call[p].event
     IN IF ~HasRoom(ConfirmedCount(bookings, e), events[e].max_capacity)
        THEN Return(p, Fail(EventFull))
        ELSE /\ ~UniqueWait(p, u, e)
             /\ IF UniqueViolation(bookings, u, e)
                THEN Return(p, Fail(AlreadyBooked))
                ELSE call' = [call EXCEPT ![p].pc = "commit",
                                          ![p].cur = NewBookingId(bookings, u, e)]
  /\ UNCHANGED << now, events, bookings, attendance, cancelled, missions >>

CommitRevive(p) ==
  /\ call[p].pc = "commit"
  /\ LET old == {b \in bookings : /\ b.user_id = call[p].user
                                  /\ b.event_id = call[p].event
                                  /\ b.status = "cancelled"}
     IN IF old = {}
        THEN /\ bookings' = bookings \cup
                  {BookingRow(call[p].cur, call[p].user, call[p].event, "confirmed")}
             /\ Return(p, Success(call[p].cur))
        ELSE \E b \in old :
               /\ bookings' = (bookings \ {b}) \cup {[b EXCEPT !.status = "confirmed"]}
               /\ Return(p, Success(b.id))
  /\ UNCHANGED << now, events, attendance, cancelled, missions >>

\* Lines 236-240: success is returned with the id of the new row; the
\* transaction commits, the row becomes visible and the locks are released.
Commit(p) ==
  /\ call[p].pc = "commit"
  /\ bookings' = bookings \cup
       {BookingRow(call[p].cur, call[p].user, call[p].event, "confirmed")}
  /\ Return(p, Success(call[p].cur))
  /\ UNCHANGED << now, events, attendance, cancelled, missions >>

\* -------------------------------------------------- deadlock detection
\* The row a waiting call is waiting for.
Wants(p) ==
  CASE call[p].pc \in {"lockExisting", "lockSameB"} -> {BookingLock(call[p].cur)}
    [] call[p].pc = "lockEvent" -> {EventLock(call[p].event)}
    [] call[p].pc = "lockSameE" -> {EventLock(EventOf(bookings, call[p].cur))}
    [] OTHER -> {}

WaitsFor(p, q) == p # q /\ Wants(p) \cap call[q].locks # {}

RECURSIVE Reach(_, _)
Reach(S, n) ==
  IF n = 0 THEN S
  ELSE Reach(S \cup {q \in Calls : \E r \in S : WaitsFor(r, q)}, n - 1)

Deadlocked(p) ==
  p \in Reach({q \in Calls : WaitsFor(p, q)}, MaxCalls)

NoDeadlockDetection(p) == FALSE

\* Lines 250-258: the store aborts one call of a lock cycle with
\* deadlock_detected; the when-others handler turns it into a result.
DeadlockAbort(p) ==
  /\ Deadlocked(p)
  /\ Return(p, Fail(InternalDeadlock))
  /\ UNCHANGED << now, events, bookings, attendance, cancelled, missions >>

\* ------------------------------------------------------- CancelBooking
CancellationWindowHours == 24

CanCancelTenHoursAhead(date_time, t) == date_time - t >= 10

CanCancel(date_time, t) == date_time - t >= CancellationWindowHours

\* CancelBooking(requester, booking): the confirmed booking of the requester
\* is located; inside the window the call is rejected, otherwise the row
\* becomes cancelled.  The update waits for a row lock held by a call.
CancelBooking(requester, b) ==
  /\ b \in Confirmed(bookings)
  /\ b.user_id = requester
  /\ \A q \in Calls : BookingLock(b.id) \notin call[q].locks
  /\ IF CanCancel(events[b.event_id].date_time, now)
     THEN /\ bookings' = (bookings \ {b}) \cup {[b EXCEPT !.status = "cancelled"]}
          /\ cancelled' = CancelResult(b.id, "cancelled")
     ELSE /\ cancelled' = CancelResult(b.id, "CancellationWindowClosed")
          /\ UNCHANGED bookings
  /\ UNCHANGED << now, events, attendance, call, missions >>

\* ------------------------------------------------ admin data entry
\* The participant data form upserts the row of (event, user); the model
\* keeps the attendance flag.
SaveParticipantData(e, u, flag) ==
  /\ ConfirmedFor(bookings, u, e) # {}
  /\ LET others == attendance \ {<< e, u >>}
     IN /\ Cardinality(others) < MaxAttendance
        /\ attendance' = IF flag THEN others \cup {<< e, u >>} ELSE others
  /\ UNCHANGED << now, events, bookings, call, cancelled, missions >>

\* ----------------------------------------------------------- the clock
Tick ==
  /\ now < MaxTicks * TickHours
  /\ now' = now + TickHours
  /\ UNCHANGED << events, bookings, attendance, call, cancelled, missions >>

\* The requests callers send: every well-formed request of a user for
\* themself, and the malformed ones (an id missing, no session, another
\* user's id) for one event.
Request(requester, user, event) ==
  [requester |-> requester, user |-> user, event |-> event]

Requests ==
  {Request(u, u, e) : u \in Users, e \in EventIds \cup {MissingEvent}}
  \cup {Request(r, u, e) : r \in Users \cup {NoUser}, u \in Users \cup {NoUser},
                            e \in {NoEvent, "A2"}}

Next ==
  \/ \E p \in Calls, rq \in Requests : Begin(p, rq.requester, rq.user, rq.event)
  \/ \E p \in Calls : LookupExisting(p)
  \/ \E p \in Calls : LockExisting(p)
  \/ \E p \in Calls : LockEvent(p)
  \/ \E p \in Calls : SameTypeCheck(p)
  \/ \E p \in Calls : LockSameBooking(p)
  \/ \E p \in Calls : LockSameEvent(p)
  \/ \E p \in Calls : InsertBooking(p)
  \/ \E p \in Calls : Commit(p)
  \/ \E r \in Users, b \in bookings : CancelBooking(r, b)
  \/ \E e \in EventIds, u \in Users, flag \in BOOLEAN : SaveParticipantData(e, u, flag)
  \/ Tick

Spec == Init /\ [][Next]_vars

TypeOK ==
  /\ now \in 0..(MaxTicks * TickHours)
  /\ events = EventTable
  /\ \A b \in bookings : b.status \in {"confirmed", "cancelled"}

\* ------------------------------------------- the capacity-law scenario
\* Distinct users, each as themself and each once, call CreateBooking for
\* one event that is still ahead and had no booking when the first call
\* started.
BeginCap(p, u, e) ==
  /\ call[p].pc = "idle"
  /\ events[e].date_time >= now
  /\ \A q \in Calls : call[q].pc # "idle" =>
        call[q].user # u /\ call[q].event = e
  /\ Begin(p, u, u, e)

NextCap ==
  \/ \E p \in Calls, u \in Users, e \in EventIds : BeginCap(p, u, e)
  \/ \E p \in Calls : LookupExisting(p)
  \/ \E p \in Calls : LockEvent(p)
  \/ \E p \in Calls : SameTypeCheck(p)
  \/ \E p \in Calls : InsertBooking(p)
  \/ \E p \in Calls : Commit(p)
  \/ Tick

SpecCap == Init /\ [][NextCap]_vars

\* ------------------------------------------------ calls one at a time
\* Calls run one after the other: each call sees one state of the store
\* from its first statement to its last.  Cancellations and the clock move
\* the store between the calls.  One caller slot serves them all.
SeqBegin(p, requester, user, event) ==
  /\ InFlight = {}
  /\ \A q \in Calls : p <= q
  /\ Cardinality(bookings) <= MaxBookings
  /\ StartCall(p, requester, user, event)

SeqCancel(requester, b) ==
  /\ InFlight = {}
  /\ CancelBooking(requester, b)

NextSeq ==
  \/ \E p \in Calls, rq \in Requests : SeqBegin(p, rq.requester, rq.user, rq.event)
  \/ \E p \in Calls : LookupExisting(p)
  \/ \E p \in Calls : LockExisting(p)
  \/ \E p \in Calls : LockEvent(p)
  \/ \E p \in Calls : SameTypeCheck(p)
  \/ \E p \in Calls : LockSameBooking(p)
  \/ \E p \in Calls : LockSameEvent(p)
  \/ \E p \in Calls : InsertBooking(p)
  \/ \E p \in Calls : Commit(p)
  \/ \E r \in Users, b \in bookings : SeqCancel(r, b)
  \/ Tick

SpecSeq == Init /\ [][NextSeq]_vars

\* ------------------------------------------------------ store faults
\* SQLERRM of the errors the store raises inside a call, other than
\* unique_violation.
FaultDetails ==
  {"deadlock detected", "canceling statement due to statement timeout"}

\* Line 256: 'Failed to create booking: ' || SQLERRM
InternalError(sqlerrm) == "Failed to create booking: " \o sqlerrm

InternalErrors == {InternalError(d) : d \in FaultDetails}

\* Lines 250-258: a statement of the call raises an error; the block is
\* rolled back and the when-others handler returns the result.
StoreFault(p, sqlerrm) ==
  /\ p \in InFlight
  /\ Return(p, Fail(InternalError(sqlerrm)))
  /\ UNCHANGED << now, events, bookings, attendance, cancelled, missions >>

\* Calls one after the other, each of which the store may fail.
FaultBegin(p, requester, user, event) ==
  /\ InFlight = {}
  /\ Begin(p, requester, user, event)

NextFault ==
  \/ \E p \in Calls, rq \in Requests : FaultBegin(p, rq.requester, rq.user, rq.event)
  \/ \E p \in Calls : LookupExisting(p)
  \/ \E p \in Calls : LockExisting(p)
  \/ \E p \in Calls : LockEvent(p)
  \/ \E p \in Calls : SameTypeCheck(p)
  \/ \E p \in Calls : LockSameBooking(p)
  \/ \E p \in Calls : LockSameEvent(p)
  \/ \E p \in Calls : InsertBooking(p)
  \/ \E p \in Calls : Commit(p)
  \/ \E p \in Calls, d \in FaultDetails : StoreFault(p, d)
  \/ Tick

SpecFault == Init /\ [][NextFault]_vars

\* ------------------------------------------------ the crossing scenario
\* The first two users hold a confirmed booking each, on the two assessment
\* days, one apiece.
CrossedBookings ==
  {BookingRow(<< 1, "A1", 0 >>, 1, "A1", "confirmed"),
   BookingRow(<< 2, "A2", 0 >>, 2, "A2", "confirmed")}

InitCrossed ==
  /\ now = 0
  /\ events = EventTable
  /\ bookings = CrossedBookings
  /\ attendance = {}
  /\ call = [p \in Calls |-> IdleCall]
  /\ cancelled = NoCancel
  /\ missions = NoMissions

\* Each caller slot serves one call, of a user for themself.
BeginOnce(p, u, e) ==
  /\ call[p].pc = "idle"
  /\ StartCall(p, u, u, e)

\* The steps of the call in slot p, those of the store on its behalf included.
CallStep(p) ==
  \/ LookupExisting(p)
  \/ LockExisting(p)
  \/ LockEvent(p)
  \/ SameTypeCheck(p)
  \/ LockSameBooking(p)
  \/ LockSameEvent(p)
  \/ InsertBooking(p)
  \/ Commit(p)
  \/ DeadlockAbort(p)

NextCrossed ==
  \/ \E p \in Calls, u \in Users, e \in EventIds : BeginOnce(p, u, e)
  \/ \E p \in Calls : LookupExisting(p)
  \/ \E p \in Calls : LockExisting(p)
  \/ \E p \in Calls : LockEvent(p)
  \/ \E p \in Calls : SameTypeCheck(p)
  \/ \E p \in Calls : LockSameBooking(p)
  \/ \E p \in Calls : LockSameEvent(p)
  \/ \E p \in Calls : InsertBooking(p)
  \/ \E p \in Calls : Commit(p)
  \/ \E p \in Calls : DeadlockAbort(p)

\* The store runs every statement that can run, and its deadlock detector
\* runs while calls wait.
SpecCrossed ==
  InitCrossed /\ [][NextCrossed]_vars /\ \A p \in Calls : WF_vars(CallStep(p))

\* ============================================================ missions
\* lib/api/missions.ts: getUserMissions derives the list of missions of a
\* user from the user's confirmed bookings, the events they are for and the
\* attendance flags.  Times are hours since 2024-01-01T00:00.

\* ---------------------------------------------------------- bounds
MaxMissionBookings == 4   \* confirmed bookings of the user of a mission list

\* ------------------------------------------------------------ dates
EpochYear == 2024

IsLeapYear(y) == (y % 4 = 0 /\ y % 100 # 0) \/ y % 400 = 0

DaysInYear(y) == IF IsLeapYear(y) THEN 366 ELSE 365

\* Months count from 0, as Date.getMonth() does.
DaysInMonth(y, m) ==
  CASE m = 1 -> IF IsLeapYear(y) THEN 29 ELSE 28
    [] m \in {3, 5, 8, 10} -> 30
    [] OTHER -> 31

RECURSIVE DaysBeforeYear(_)
DaysBeforeYear(y) ==
  IF y <= EpochYear THEN 0 ELSE DaysBeforeYear(y - 1) + DaysInYear(y - 1)

RECURSIVE DaysBeforeMonth(_, _)
DaysBeforeMonth(y, m) ==
  IF m = 0 THEN 0 ELSE DaysBeforeMonth(y, m - 1) + DaysInMonth(y, m - 1)

RECURSIVE YearOfDay(_, _)
YearOfDay(day, y) ==
  IF day < DaysInYear(y) THEN << y, day >> ELSE YearOfDay(day - DaysInYear(y), y + 1)

RECURSIVE MonthOfDay(_, _, _)
MonthOfDay(day, y, m) ==
  IF day < DaysInMonth(y, m) THEN << m, day + 1 >>
  ELSE MonthOfDay(day - DaysInMonth(y, m), y, m + 1)

\* new Date(t): getFullYear(), getMonth(), getDate(), getHours()
DateFields(t) ==
  LET yd == YearOfDay(t \div 24, EpochYear)
      md == MonthOfDay(yd[2], yd[1], 0)
  IN [year |-> yd[1], month |-> md[1], date |-> md[2], hours |-> t % 24]

\* The time value of a date with the given fields: a month past December
\* carries into the year, a day past the end of the month runs on into the
\* following month.
MakeDate(year, month, date, hours) ==
  LET y == year + (month \div 12)
      m == month % 12
  IN (DaysBeforeYear(y) + DaysBeforeMonth(y, m) + date - 1) * 24 + hours

NinetyOneDaysLater(mission1Date) == mission1Date + 91 * 24

\* Lines 138-144: date.setMonth(date.getMonth() + 3)
threeMonthsLater(mission1Date) ==
  LET f == DateFields(mission1Date)
  IN MakeDate(f.year, f.month + 3, f.date, f.hours)

\* ------------------------------------------------- the function's input
\* Lines 22-34: the confirmed bookings of the user.
BookingsOf(rows, userId) == {b \in Confirmed(rows) : b.user_id = userId}

\* The query has no order by: the store returns the rows in any order.
RECURSIVE Orders(_)
Orders(S) ==
  IF S = {} THEN {<< >>}
  ELSE UNION {{<< x >> \o s : s \in Orders(S \ {x})} : x \in S}

\* Lines 37-47: the ids of the events with an attendance flag that is true.
attendanceByEventId(att, userId) == {k[1] : k \in {x \in att : x[2] = userId}}

\* Lines 54-80: the events of one type, in the order of the rows.
RECURSIVE EventsOfType(_, _, _, _)
EventsOfType(order, evs, attended, type) ==
  IF order = << >> THEN << >>
  ELSE LET b == Head(order)
           rest == EventsOfType(Tail(order), evs, attended, type)
       IN IF b.event_id \in DOMAIN evs /\ evs[b.event_id].event_type = type
          THEN << [eventId |-> b.event_id,
                   dateTime |-> evs[b.event_id].date_time,
                   hasAttendance |-> b.event_id \in attended] >> \o rest
          ELSE rest

\* Lines 83-85: Array.prototype.sort by date; the sort is stable, events of
\* the same time keep the order of the rows.
RECURSIVE InsertByDate(_, _)
InsertByDate(s, x) ==
  IF s = << >> THEN << x >>
  ELSE IF Head(s).dateTime <= x.dateTime
       THEN << Head(s) >> \o InsertByDate(Tail(s), x)
       ELSE << x >> \o s

RECURSIVE SortByDate(_)
SortByDate(s) ==
  IF s = << >> THEN << >>
  ELSE InsertByDate(SortByDate(SubSeq(s, 1, Len(s) - 1)), s[Len(s)])

\* ------------------------------------------------------- the statuses
Mission(id, status, isLocked, progress, unlockDate) ==
  [id |-> id, status |-> status, isLocked |-> isLocked,
   progress |-> progress, unlockDate |-> unlockDate]

\* undefined
NoProgress == ""
NoDate == -1

AnyEventStatus(list) ==
  IF list = << >> THEN "not_started"
  ELSE IF \E i \in 1..Len(list) : list[i].hasAttendance
       THEN "completed" ELSE "incomplete"

\* Lines 88-93 and 96-103: the status the first event of a list gives.
FirstEventStatus(list) ==
  IF list = << >> THEN "not_started"
  ELSE IF list[1].hasAttendance THEN "completed" ELSE "incomplete"

mission1Status(fun) == FirstEventStatus(fun)

mission2Ungated(m1, dexa) == FirstEventStatus(dexa)

mission2AnyScan(m1, dexa) ==
  IF m1 = "completed" THEN AnyEventStatus(dexa) ELSE "not_started"

mission2Status(m1, dexa) ==
  IF m1 = "completed" THEN FirstEventStatus(dexa) ELSE "not_started"

\* .filter((e) => e.hasAttendance).length
CountAttended(list) == Cardinality({i \in 1..Len(list) : list[i].hasAttendance})

NoSlice(list) == list

\* .slice(1)
Slice1(list) == IF list = << >> THEN << >> ELSE Tail(list)

TouchpointTarget == 9
AdditionalTarget == 1
CombinedTarget == 10

\* Lines 110-117, 125-132, 321-328: attended against a target.
TargetStatus(m2, attended, target, booked) ==
  IF m2 = "completed"
  THEN IF attended >= target THEN "completed"
       ELSE IF booked > 0 THEN "incomplete" ELSE "not_started"
  ELSE "not_started"

\* Lines 181, 189, 377
ProgressText(status, attended, target, booked) ==
  IF status # "not_started"
  THEN ToString(attended) \o "/" \o ToString(target) \o " completed ("
         \o ToString(booked) \o " booked)"
  ELSE NoProgress

\* Lines 136-146: the unlock date and whether it has come.
UnlockDate(fun) == IF fun = << >> THEN NoDate ELSE threeMonthsLater(fun[1].dateTime)

UnlockedOnceBooked(fun, t) == fun # << >>

isMission5Unlocked(fun, t) == fun # << >> /\ t >= UnlockDate(fun)

\* Lines 149-158
mission5Status(fun, t) ==
  IF isMission5Unlocked(fun, t)
  THEN IF \E i \in 1..Len(fun) :
            fun[i].dateTime >= UnlockDate(fun) /\ fun[i].hasAttendance
       THEN "completed"
       ELSE IF \E i \in 1..Len(fun) : fun[i].dateTime >= UnlockDate(fun)
            THEN "incomplete" ELSE "not_started"
  ELSE "not_started"

\* Lines 18-202: the variant with five missions.
getUserMissions(order, evs, attended, t) ==
  LET fun == SortByDate(EventsOfType(order, evs, attended, "fun_assessment_day"))
      dexa == SortByDate(EventsOfType(order, evs, attended, "dexa_scan"))
      tp == SortByDate(EventsOfType(order, evs, attended, "touchpoints"))
      m1 == mission1Status(fun)
      m2 == mission2Status(m1, dexa)
      m3a == TargetStatus(m2, CountAttended(tp), TouchpointTarget, Len(tp))
      m3b == TargetStatus(m2, CountAttended(Slice1(fun)), AdditionalTarget,
                          Len(Slice1(fun)))
  IN << Mission(1, m1, FALSE, NoProgress, NoDate),
        Mission(2, m2, m1 # "completed", NoProgress, NoDate),
        Mission(3, m3a, m2 # "completed",
                ProgressText(m3a, CountAttended(tp), TouchpointTarget, Len(tp)),
                NoDate),
        Mission(4, m3b, m2 # "completed",
                ProgressText(m3b, CountAttended(Slice1(fun)), AdditionalTarget,
                             Len(Slice1(fun))),
                NoDate),
        Mission(5, mission5Status(fun, t), ~isMission5Unlocked(fun, t),
                NoProgress, UnlockDate(fun)) >>

CombinedOfTouchpointsOnly(order, evs, attended, t) ==
  LET l == getUserMissions(order, evs, attended, t)
      tp == EventsOfType(order, evs, attended, "touchpoints")
  IN << l[1], l[2],
        [l[3] EXCEPT !.status = TargetStatus(l[2].status, CountAttended(tp),
                                             CombinedTarget, Len(tp))],
        l[5] >>

CombinedLockedWithMission2(order, evs, attended, t) ==
  LET l == getUserMissions(order, evs, attended, t)
  IN << l[1], l[2], [l[3] EXCEPT !.isLocked = l[2].isLocked], l[5] >>

\* Lines 221-390: the variant with four missions and one combined target.
getUserMissionsCombined(order, evs, attended, t) ==
  LET fun == SortByDate(EventsOfType(order, evs, attended, "fun_assessment_day"))
      dexa == SortByDate(EventsOfType(order, evs, attended, "dexa_scan"))
      tp == SortByDate(EventsOfType(order, evs, attended, "touchpoints"))
      m1 == mission1Status(fun)
      m2 == mission2Status(m1, dexa)
      totalCompleted == CountAttended(tp) + CountAttended(Slice1(fun))
      totalBooked == Len(tp) + Len(Slice1(fun))
      m3 == TargetStatus(m2, totalCompleted, CombinedTarget, totalBooked)
  IN << Mission(1, m1, FALSE, NoProgress, NoDate),
        Mission(2, m2, m1 # "completed", NoProgress, NoDate),
        Mission(3, m3, m2 # "completed",
                ProgressText(m3, totalCompleted, CombinedTarget, totalBooked),
                NoDate),
        Mission(4, mission5Status(fun, t), ~isMission5Unlocked(fun, t),
                NoProgress, UnlockDate(fun)) >>

\* ------------------------------------------------ the mission scenario
\* Events of a study year: two assessment days at the same time on 31
\* January, one on 30 April and one on 1 May, two scans, two touchpoints.
MissionEventTable ==
  [ F1 |-> [event_type |-> "fun_assessment_day", date_time |-> 730,  max_capacity |-> 2],
    F2 |-> [event_type |-> "fun_assessment_day", date_time |-> 730,  max_capacity |-> 2],
    F3 |-> [event_type |-> "fun_assessment_day", date_time |-> 2890, max_capacity |-> 2],
    F4 |-> [event_type |-> "fun_assessment_day", date_time |-> 2914, max_capacity |-> 2],
    D1 |-> [event_type |-> "dexa_scan",          date_time |-> 1000, max_capacity |-> 2],
    D2 |-> [event_type |-> "dexa_scan",          date_time |-> 1200, max_capacity |-> 2],
    P1 |-> [event_type |-> "touchpoints",        date_time |-> 1500, max_capacity |-> 2],
    P2 |-> [event_type |-> "touchpoints",        date_time |-> 1600, max_capacity |-> 2] ]

\* The times at which the missions are looked at.
MissionTimes == {800, 2890, 2914}

\* The participant of the scenario.
Participant == CHOOSE u \in Users : \A v \in Users : u <= v

InitMissions ==
  /\ now = CHOOSE t \in MissionTimes : \A x \in MissionTimes : t <= x
  /\ events = MissionEventTable
  /\ \E S \in SUBSET DOMAIN MissionEventTable :
        /\ Cardinality(S) <= MaxMissionBookings
        /\ bookings = {BookingRow(<< Participant, e, 0 >>, Participant, e, "confirmed")
                         : e \in S}
  /\ attendance = {}
  /\ call = [p \in Calls |-> IdleCall]
  /\ cancelled = NoCancel
  /\ missions = NoMissions

\* A call of the five-mission variant returns; the store has returned the
\* rows in the given order.
ComputeMissionsFrom(userId, order) ==
  /\ missions' = MissionList(userId,
                    getUserMissions(order, events,
                                    attendanceByEventId(attendance, userId), now))
  /\ UNCHANGED << now, events, bookings, attendance, call, cancelled >>

ComputeMissions(userId) ==
  \E order \in Orders(BookingsOf(bookings, userId)) :
     ComputeMissionsFrom(userId, order)

\* A call of the four-mission variant returns.
ComputeMissionsCombinedFrom(userId, order) ==
  /\ missions' = MissionList(userId,
                    getUserMissionsCombined(order, events,
                                            attendanceByEventId(attendance, userId), now))
  /\ UNCHANGED << now, events, bookings, attendance, call, cancelled >>

ComputeMissionsCombined(userId) ==
  \E order \in Orders(BookingsOf(bookings, userId)) :
     ComputeMissionsCombinedFrom(userId, order)

\* An administrator saves the participant data of a booked event.
RecordAttendance(e, u, flag) ==
  /\ ConfirmedFor(bookings, u, e) # {}
  /\ attendance' = IF flag THEN attendance \cup {<< e, u >>}
                   ELSE attendance \ {<< e, u >>}
  /\ attendance' # attendance
  /\ missions' = NoMissions
  /\ UNCHANGED << now, events, bookings, call, cancelled >>

\* Time passes.
AdvanceClock ==
  /\ \E t \in MissionTimes : t > now /\ now' = t
  /\ missions' = NoMissions
  /\ UNCHANGED << events, bookings, attendance, call, cancelled >>

NextMissions ==
  \/ \E u \in Users : ComputeMissions(u)
  \/ \E u \in Users : ComputeMissionsCombined(u)
  \/ \E e \in DOMAIN events, u \in Users, flag \in BOOLEAN : RecordAttendance(e, u, flag)
  \/ AdvanceClock

SpecMissions == InitMissions /\ [][NextMissions]_vars

\* --------------------------------------------- the unlock-date scenario
MaxFirstDay == 365   \* the last day, counted from 2024-01-01, of the first event

\* Two assessment days at ten in the morning, the second 91 days after the
\* first.
DatedEventTable(day) ==
  [ F1 |-> [event_type |-> "fun_assessment_day", date_time |-> day * 24 + 10,
            max_capacity |-> 2],
    F2 |-> [event_type |-> "fun_assessment_day", date_time |-> (day + 91) * 24 + 10,
            max_capacity |-> 2] ]

\* The participant has booked any of the two events; the first one is on any
\* day of the year.
InitDates ==
  /\ now = 0
  /\ \E day \in 0..MaxFirstDay : events = DatedEventTable(day)
  /\ \E S \in SUBSET {"F1", "F2"} :
        bookings = {BookingRow(<< Participant, e, 0 >>, Participant, e, "confirmed")
                      : e \in S}
  /\ attendance = {}
  /\ call = [p \in Calls |-> IdleCall]
  /\ cancelled = NoCancel
  /\ missions = NoMissions

NextDates ==
  \/ \E u \in Users : ComputeMissions(u)
  \/ \E u \in Users : ComputeMissionsCombined(u)

SpecDates == InitDates /\ [][NextDates]_vars

\* ----------------------------------------------- the milestone scenario
MaxTouchpoints == 10   \* touchpoint events of the study

TouchpointId(i) == "P" \o ToString(i)

\* An assessment day on 31 January and one on 1 May, a scan, and the
\* touchpoint events, a day apart.  No two events start at the same time.
MilestoneEventTable ==
  [e \in {"F1", "F2", "D1"} \cup {TouchpointId(i) : i \in 1..MaxTouchpoints} |->
     CASE e = "F1" -> [event_type |-> "fun_assessment_day", date_time |-> 730,
                       max_capacity |-> 2]
       [] e = "F2" -> [event_type |-> "fun_assessment_day", date_time |-> 2914,
                       max_capacity |-> 2]
       [] e = "D1" -> [event_type |-> "dexa_scan", date_time |-> 1000,
                       max_capacity |-> 2]
       [] OTHER -> [event_type |-> "touchpoints",
                    date_time |-> 1200 + 24 * (CHOOSE i \in 1..MaxTouchpoints :
                                                 e = TouchpointId(i)),
                    max_capacity |-> 2]]

\* What a participant has done about an event.
Marks == {"none", "booked", "attended"}

\* A history of the participant: how many of the touchpoint events they have
\* booked and how many of those they have attended, and what they have done
\* about the assessment days and the scan.
MilestoneHistories ==
  {h \in [touchBooked : 0..MaxTouchpoints, touchAttended : 0..MaxTouchpoints,
          F1 : Marks, F2 : Marks, D1 : Marks] : h.touchAttended <= h.touchBooked}

\* The times at which the missions are looked at: before and on the unlock
\* date of the final mission.
MilestoneTimes == {2000, 2914}

HistoryEvents(h, marks) ==
  {e \in {"F1", "F2", "D1"} : h[e] \in marks}
  \cup {TouchpointId(i) : i \in 1..(IF "booked" \in marks THEN h.touchBooked
                                     ELSE h.touchAttended)}

HistoryBookings(h) ==
  {BookingRow(<< Participant, e, 0 >>, Participant, e, "confirmed")
     : e \in HistoryEvents(h, {"booked", "attended"})}

HistoryAttendance(h) == {<< e, Participant >> : e \in HistoryEvents(h, {"attended"})}

InitMilestones ==
  /\ now \in MilestoneTimes
  /\ events = MilestoneEventTable
  /\ \E h \in MilestoneHistories :
        /\ bookings = HistoryBookings(h)
        /\ attendance = HistoryAttendance(h)
  /\ call = [p \in Calls |-> IdleCall]
  /\ cancelled = NoCancel
  /\ missions = NoMissions

\* The rows of a set in the order of a scan of the table.
RECURSIVE RowsByEvent(_, _)
RowsByEvent(rows, ids) ==
  IF ids = << >> THEN << >>
  ELSE LET here == {b \in rows : b.event_id = Head(ids)}
       IN (IF here = {} THEN << >> ELSE << CHOOSE b \in here : TRUE >>)
          \o RowsByEvent(rows, Tail(ids))

Reverse(s) == [i \in 1..Len(s) |-> s[Len(s) + 1 - i]]

\* The order in which a scan meets the events: not the order of their dates.
ScanOrder ==
  << "F2", "D1" >> \o [i \in 1..MaxTouchpoints |-> TouchpointId(MaxTouchpoints + 1 - i)]
  \o << "F1" >>

\* The orders in which the store returns the rows in the scenario: that of
\* a scan and its reverse.
RowOrders(rows) == {RowsByEvent(rows, ScanOrder), Reverse(RowsByEvent(rows, ScanOrder))}

NextMilestones ==
  \/ \E u \in Users : \E order \in RowOrders(BookingsOf(bookings, u)) :
        ComputeMissionsFrom(u, order)
  \/ \E u \in Users : \E order \in RowOrders(BookingsOf(bookings, u)) :
        ComputeMissionsCombinedFrom(u, order)

SpecMilestones == InitMilestones /\ [][NextMilestones]_vars

\* ======================================================= the properties
Done == {p \in Calls : call[p].pc = "done"}

\* The call in slot p returns in this step.
Returns(p) == call'[p].pc = "done" /\ call'[p] # call[p]

\* now() of the call that returns in this step.
CallNow(p) == IF p \in InFlight THEN call[p].txnow ELSE now

Min(a, b) == IF a <= b THEN a ELSE b

\* C1: in every reachable state the number of confirmed bookings of each
\* event is at most the capacity of the event.
CapacityRespected ==
  \A e \in DOMAIN events : ConfirmedCount(bookings, e) <= events[e].max_capacity

\* A call was turned away from an event that is booked to its capacity.
CapacityReached ==
  \E p \in Done :
     /\ call[p].result = Fail(EventFull)
     /\ ConfirmedCount(bookings, call[p].event) = events[call[p].event].max_capacity

\* C2: in every reachable state a user holds at most one confirmed booking
\* on an event of each restricted type that has not started yet.
SingleActiveRestricted ==
  \A u \in Users, t \in {"fun_assessment_day", "dexa_scan"} :
     Cardinality(SameTypeBookings(bookings, events, u, t, now)) <= 1

\* C3: once every one of the N calls of the capacity-law scenario has
\* returned, min(N, capacity) of them have succeeded and all the others
\* have returned EventFull.
CapacityLaw ==
  (InFlight = {} /\ Done # {}) =>
     LET e == call[CHOOSE p \in Done : TRUE].event
         won == {p \in Done : call[p].result.success}
     IN /\ Cardinality(won) = Min(Cardinality(Done), events[e].max_capacity)
        /\ \A p \in Done \ won : call[p].result = Fail(EventFull)

\* More callers than seats: all have returned, one of them with EventFull.
CapacityLawContended ==
  /\ InFlight = {}
  /\ Cardinality(Done) >= 2
  /\ \E p \in Done : call[p].result = Fail(EventFull)
  /\ \E p \in Done : call[p].result.success

\* C4: in every reachable state there is at most one confirmed booking for
\* each (user, event) pair.
OneConfirmedPerUserEvent ==
  \A u \in Users, e \in EventIds : Cardinality(ConfirmedFor(bookings, u, e)) <= 1

\* A user cancelled a booking and holds a new confirmed one of the same event.
BookedAgainAfterCancel ==
  \E b \in bookings, c \in bookings :
     /\ b.status = "cancelled" /\ c.status = "confirmed"
     /\ b.user_id = c.user_id /\ b.event_id = c.event_id

\* C5: a call that returns while the user holds a committed confirmed
\* booking of the event returns AlreadyBooked and creates no booking.
DuplicateReturnsAlreadyBooked ==
  [][\A p \in Calls :
       (/\ p \in InFlight
        /\ Returns(p)
        /\ ConfirmedFor(bookings, call[p].user, call[p].event) # {})
       => (call'[p].result = Fail(AlreadyBooked) /\ bookings' = bookings)]_vars

\* C6: a call for an event of a restricted type that is still ahead, by a
\* user who holds a confirmed booking on another event of that type that is
\* still ahead, returns CategoryConflict and creates nothing; and a call
\* returns CategoryConflict only if the user holds a confirmed booking on an
\* event of the same type.
CategoryExclusive ==
  [][\A p \in Calls :
       (/\ p \in InFlight
        /\ Returns(p)
        /\ call[p].event \in DOMAIN events)
       => LET u == call[p].user
              e == call[p].event
              t == events[e].event_type
              same == SameTypeBookings(bookings, events, u, t, call[p].txnow)
          IN /\ (/\ t \in {"fun_assessment_day", "dexa_scan"}
                 /\ events[e].date_time >= call[p].txnow
                 /\ ConfirmedFor(bookings, u, e) = {}
                 /\ \E b \in same : b.event_id # e)
                => (call'[p].result = Fail(CategoryConflict(t)) /\ bookings' = bookings)
             /\ call'[p].result.error \in CategoryConflicts
                => (call'[p].result = Fail(CategoryConflict(t)) /\ same # {})]_vars

\* C7: a call for a touchpoints event never runs the same-type check and
\* never returns CategoryConflict.
TouchpointNeverConflicts ==
  \A p \in Calls :
     (call[p].event \in DOMAIN events
        /\ events[call[p].event].event_type = "touchpoints")
     => /\ call[p].pc \notin {"sameType", "lockSameB", "lockSameE"}
        /\ call[p].result.error \notin CategoryConflicts

\* A user holds confirmed bookings on two touchpoints events that are both
\* still ahead, the second one just booked.
TwoTouchpointsHeld ==
  \E u \in Users, p \in Done :
     /\ call[p].user = u
     /\ call[p].result.success
     /\ events[call[p].event].event_type = "touchpoints"
     /\ Cardinality(SameTypeBookings(bookings, events, u, "touchpoints", now)) >= 2

\* C8 as stated: every call against an event that has started before the
\* call's now returns EventInPast.
PastAlwaysEventInPast ==
  [][\A p \in Calls :
       (/\ Returns(p)
        /\ call'[p].event \in DOMAIN events
        /\ events[call'[p].event].date_time < CallNow(p))
       => call'[p].result = Fail(EventInPast)]_vars

\* C8 amended: a call against an event that has started before the call's
\* now never succeeds; it returns the error of the first check that fails:
\* InvalidInput, Unauthenticated or Unauthorized for a request that is not a
\* user's for themself, AlreadyBooked if the lookup finds a confirmed booking
\* of the user for the event, and EventInPast otherwise.
PastEventRejected ==
  [][\A p \in Calls :
       (/\ Returns(p)
        /\ call'[p].event \in DOMAIN events
        /\ events[call'[p].event].date_time < CallNow(p))
       => IF p \notin InFlight
          THEN IF call'[p].user = NoUser
               THEN call'[p].result = Fail(InvalidInput)
               ELSE call'[p].result \in {Fail(Unauthenticated), Fail(Unauthorized)}
          ELSE IF call[p].pc = "lockExisting"
          THEN call'[p].result = Fail(AlreadyBooked)
          ELSE call'[p].result = Fail(EventInPast)]_vars

\* A call was rejected with EventInPast although the event has seats left.
PastRejectedWithSpareCapacity ==
  \E p \in Done :
     /\ call[p].result = Fail(EventInPast)
     /\ ConfirmedCount(bookings, call[p].event) < events[call[p].event].max_capacity

\* C9: every booking row is created by a call whose now() is not after the
\* start of the row's event.
NoBookingIntoThePast ==
  [][\A b \in bookings' \ bookings :
       b.status = "confirmed" =>
         \E p \in Calls :
            /\ call[p].pc = "commit"
            /\ call[p].cur = b.id
            /\ events[b.event_id].date_time >= call[p].txnow]_vars

\* A call has just created a booking.
BookingCreated ==
  \E p \in Done :
     /\ call[p].result.success
     /\ BookingRow(call[p].result.booking_id, call[p].user, call[p].event,
                   "confirmed") \in bookings

\* C10: a step of a CreateBooking call never changes the events or the
\* attendance records; it leaves the bookings as they are unless the call
\* returns success, and then it adds exactly one row: confirmed, for the
\* user and event of the call, with the returned id, which no other row has.
CreateBookingFrame ==
  [][call' # call =>
       /\ events' = events
       /\ attendance' = attendance
       /\ IF \E p \in Calls : Returns(p) /\ call'[p].result.success
          THEN \E p \in Calls :
                 /\ Returns(p)
                 /\ call'[p].result.error = ""
                 /\ \A b \in bookings : b.id # call'[p].result.booking_id
                 /\ bookings' = bookings \cup
                      {BookingRow(call'[p].result.booking_id, call[p].user,
                                  call[p].event, "confirmed")}
          ELSE bookings' = bookings]_vars

\* A call failed and another succeeded while attendance was on record and a
\* cancelled booking of the same user and event was in the table.
FrameExercised ==
  /\ attendance # {}
  /\ \E p \in Done : ~call[p].result.success /\ call[p].result.error # ""
  /\ \E p \in Done :
        /\ call[p].result.success
        /\ \E b \in bookings :
              /\ b.status = "cancelled"
              /\ b.user_id = call[p].user /\ b.event_id = call[p].event

\* The first check that fails, in the order InvalidInput, Unauthenticated,
\* Unauthorized, AlreadyBooked, NotFound, EventInPast, CategoryConflict,
\* EventFull, for a request in a store state; "" if none fails.
FirstFailure(requester, user, event, rows, evs, t) ==
  IF user = NoUser \/ event = NoEvent THEN InvalidInput
  ELSE IF requester = NoUser THEN Unauthenticated
  ELSE IF requester # user THEN Unauthorized
  ELSE IF ConfirmedFor(rows, user, event) # {} THEN AlreadyBooked
  ELSE IF event \notin DOMAIN evs THEN NotFound
  ELSE IF evs[event].date_time < t THEN EventInPast
  ELSE IF /\ evs[event].event_type \in {"fun_assessment_day", "dexa_scan"}
          /\ SameTypeBookings(rows, evs, user, evs[event].event_type, t) # {}
       THEN CategoryConflict(evs[event].event_type)
  ELSE IF ConfirmedCount(rows, event) >= evs[event].max_capacity THEN EventFull
  ELSE ""

\* C11: a call that runs against one state of the store returns the error
\* of the first check that fails in that state, in the order InvalidInput,
\* Unauthenticated, Unauthorized, AlreadyBooked, NotFound, EventInPast,
\* CategoryConflict, EventFull, and succeeds only if no check fails.
ChecksInOrder ==
  [][\A p \in Calls :
       Returns(p) =>
         LET first == FirstFailure(call'[p].requester, call'[p].user, call'[p].event,
                                   bookings, events, CallNow(p))
         IN /\ call'[p].result.error = first
            /\ call'[p].result.success <=> first = ""]_vars

\* A call returned the earliest of several failing checks: CategoryConflict
\* for an event that is also full, by a user with a cancelled booking.
SeveralChecksFailed ==
  \E p \in Done :
     /\ call[p].result.error \in CategoryConflicts
     /\ ConfirmedCount(bookings, call[p].event) >= events[call[p].event].max_capacity
     /\ ConfirmedFor(bookings, call[p].user, call[p].event) = {}
     /\ \E b \in bookings : b.status = "cancelled" /\ b.user_id = call[p].user

\* C12 as stated: every call with a null requester returns Unauthenticated
\* and every call whose requester is another user than userId returns
\* Unauthorized.
RequesterAlwaysChecked ==
  [][\A p \in Calls :
       Returns(p) =>
         /\ call'[p].requester = NoUser => call'[p].result = Fail(Unauthenticated)
         /\ call'[p].requester \notin {NoUser, call'[p].user}
              => call'[p].result = Fail(Unauthorized)]_vars

\* C12 amended: a call that names a user and an event returns
\* Unauthenticated if its requester is null and Unauthorized if its
\* requester is another user; such a call returns at once, is never in
\* flight, holds no lock and leaves the bookings as they are; and every
\* booking row is created by a call whose requester is the user of the row.
OnlyForThemself ==
  [][
      /\ \A p \in Calls :
          (Returns(p) /\ call'[p].user # NoUser /\ call'[p].event # NoEvent
             /\ call'[p].requester # call'[p].user)
          => /\ call'[p].result =
                  Fail(IF call'[p].requester = NoUser THEN Unauthenticated
                       ELSE Unauthorized)
             /\ p \notin InFlight
             /\ bookings' = bookings
      /\ \A p \in Calls :
          (call'[p].locks # {} \/ call'[p].pc \notin {"idle", "done"})
          => (call'[p].requester = call'[p].user /\ call'[p].requester # NoUser)
      /\ \A b \in bookings' \ bookings :
          b.status = "confirmed" =>
            \E p \in Calls :
               /\ call[p].pc = "commit" /\ call[p].cur = b.id
               /\ call[p].requester = b.user_id /\ b.user_id # NoUser]_vars

\* A call without a session and a call for another user were turned away
\* from an event that the named user could have booked, while the table
\* holds a booking.
ForeignCallsRejected ==
  \E p \in Done, q \in Done :
     /\ call[p].result = Fail(Unauthenticated) /\ call[p].requester = NoUser
     /\ call[q].result = Fail(Unauthorized) /\ call[q].requester \in Users \ {call[q].user}
     /\ bookings # {}
     /\ FirstFailure(call[q].user, call[q].user, call[q].event, bookings, events, now) = ""

\* C13: two calls with the same request that both end in an internal fault
\* return identical results, whatever the faults were.
FaultDetailHidden ==
  \A p \in Done, q \in Done :
     (/\ call[p].result.error \in InternalErrors
      /\ call[q].result.error \in InternalErrors
      /\ call[p].requester = call[q].requester
      /\ call[p].user = call[q].user
      /\ call[p].event = call[q].event)
     => call[p].result = call[q].result

\* C14: a CancelBooking call of the owner of a confirmed booking turns the
\* booking into a cancelled one if the event starts 24 hours or more after
\* the time of the call, and otherwise returns CancellationWindowClosed and
\* leaves the booking confirmed; nothing else changes the bookings that are
\* in the table.
CancellationWindow ==
  [][
      /\ cancelled' # cancelled =>
           LET id == cancelled'.booking_id
               b == CHOOSE x \in bookings : x.id = id
           IN /\ \E x \in Confirmed(bookings) : x.id = id
              /\ IF events[b.event_id].date_time - now >= 24
                 THEN /\ cancelled'.result = "cancelled"
                      /\ bookings' = (bookings \ {b})
                                        \cup {[b EXCEPT !.status = "cancelled"]}
                 ELSE /\ cancelled'.result = "CancellationWindowClosed"
                      /\ bookings' = bookings
      /\ (bookings \ bookings' # {}) => cancelled' # cancelled
    ]_vars

\* A cancellation was turned down ten hours before the start of the event,
\* the booking is still confirmed, and an earlier cancellation went through.
CancelRejectedAtTenHours ==
  /\ cancelled.result = "CancellationWindowClosed"
  /\ \E b \in Confirmed(bookings) :
        /\ b.id = cancelled.booking_id
        /\ events[b.event_id].date_time - now = 10
  /\ \E b \in bookings : b.status = "cancelled"

\* C15: every booking row stays in the table with its id, user and event;
\* a row that is cancelled stays cancelled; and a row that enters the table
\* is a confirmed row with an id of its own, inserted by the CreateBooking
\* call that returns that id.
StatusOnlyForward ==
  [][
      /\ \A b \in bookings :
           \E c \in bookings' :
              /\ c.id = b.id /\ c.user_id = b.user_id /\ c.event_id = b.event_id
              /\ b.status = "cancelled" => c.status = "cancelled"
      /\ \A c \in bookings', d \in bookings' : c.id = d.id => c = d
      /\ \A c \in bookings' :
           (\A b \in bookings : b.id # c.id) =>
              /\ c.status = "confirmed"
              /\ \E p \in Calls : Returns(p) /\ call'[p].result = Success(c.id)
    ]_vars

\* A user booked an event again after cancelling: the call returned the id
\* of a new confirmed row and the cancelled row is still in the table.
RebookedAsNewRow ==
  \E p \in Done, b \in bookings, c \in bookings :
     /\ call[p].result = Success(c.id)
     /\ c.status = "confirmed" /\ b.status = "cancelled"
     /\ b.id # c.id
     /\ b.user_id = c.user_id /\ b.event_id = c.event_id

\* C16: in every list a getUserMissions call returns, a mission that comes
\* after a mission that is not completed has status not_started and is
\* reported locked; this includes the last mission of the list.
MissionGating ==
  \A k \in 1..(Len(missions.list) - 1) :
     missions.list[k].status # "completed"
     => /\ missions.list[k + 1].status = "not_started"
        /\ missions.list[k + 1].isLocked

\* not_started < incomplete < completed
Rank(status) ==
  CASE status = "not_started" -> 0
    [] status = "incomplete" -> 1
    [] status = "completed" -> 2

\* No mission of the later list is behind the same mission of the earlier
\* list or locked where that one is unlocked.
NotBackward(old, new) ==
  \A k \in 1..Len(old) :
     /\ Rank(new[k].status) >= Rank(old[k].status)
     /\ ~old[k].isLocked => ~new[k].isLocked

\* The lists the calls of the two variants can return for a user.
ListsOf(userId, rows, evs, att, t) ==
  {getUserMissions(order, evs, attendanceByEventId(att, userId), t)
     : order \in Orders(BookingsOf(rows, userId))}

ListsCombinedOf(userId, rows, evs, att, t) ==
  {getUserMissionsCombined(order, evs, attendanceByEventId(att, userId), t)
     : order \in Orders(BookingsOf(rows, userId))}

\* C17: when an attendance record is added while the bookings and now stay
\* as they are, no list returned after it has a mission behind the same
\* mission of a list returned before it in the order not_started <
\* incomplete < completed, or locked where it was unlocked.
AttendanceMonotone ==
  [][(/\ attendance' # attendance /\ attendance \subseteq attendance'
      /\ bookings' = bookings /\ events' = events /\ now' = now)
     => \A u \in Users :
          /\ \A old \in ListsOf(u, bookings, events, attendance, now),
                new \in ListsOf(u, bookings, events, attendance', now) :
                NotBackward(old, new)
          /\ \A old \in ListsCombinedOf(u, bookings, events, attendance, now),
                new \in ListsCombinedOf(u, bookings, events, attendance', now) :
                NotBackward(old, new)]_vars

\* C18: the list a call returned is the list every call of that variant
\* returns for the same user on the same bookings, attendance records and
\* now, in whatever order the store returns the rows.
MissionsDeterministic ==
  missions # NoMissions =>
    \A order \in Orders(BookingsOf(bookings, missions.userId)) :
       missions.list =
         IF Len(missions.list) = 5
         THEN getUserMissions(order, events,
                              attendanceByEventId(attendance, missions.userId), now)
         ELSE getUserMissionsCombined(order, events,
                                      attendanceByEventId(attendance, missions.userId), now)

\* C19: when now advances while the bookings and the attendance records
\* stay as they are, no list returned after it has a mission behind the
\* same mission of a list returned before it, or locked where it was
\* unlocked; in particular the final mission stays unlocked.
ClockMonotone ==
  [][(/\ now' > now /\ attendance' = attendance
      /\ bookings' = bookings /\ events' = events)
     => \A u \in Users :
          /\ \A old \in ListsOf(u, bookings, events, attendance, now),
                new \in ListsOf(u, bookings, events, attendance, now') :
                NotBackward(old, new)
          /\ \A old \in ListsCombinedOf(u, bookings, events, attendance, now),
                new \in ListsCombinedOf(u, bookings, events, attendance, now') :
                NotBackward(old, new)]_vars

\* The confirmed assessment bookings of a user, and the earliest of them.
AssessmentBookings(userId) ==
  {b \in BookingsOf(bookings, userId) :
     b.event_id \in DOMAIN events
       /\ events[b.event_id].event_type = "fun_assessment_day"}

EarliestAssessments(userId) ==
  {b \in AssessmentBookings(userId) :
     \A c \in AssessmentBookings(userId) :
        events[b.event_id].date_time <= events[c.event_id].date_time}

\* C20: in every list a call returns, mission 1 is not locked; its status
\* is not_started if the user has no confirmed assessment booking, and
\* otherwise completed if the earliest booked assessment event (one of
\* them, if several start at that time) is attended and incomplete if it is
\* not, whatever the attendance of the later ones.
Mission1Rule ==
  missions # NoMissions =>
    LET m == missions.list[1]
        att == attendanceByEventId(attendance, missions.userId)
    IN /\ m.id = 1
       /\ ~m.isLocked
       /\ IF AssessmentBookings(missions.userId) = {}
          THEN m.status = "not_started"
          ELSE \E b \in EarliestAssessments(missions.userId) :
                 m.status = IF b.event_id \in att THEN "completed" ELSE "incomplete"

\* A list was returned with mission 1 incomplete for a user who attended a
\* later assessment event but not the earliest one.
LaterAttendanceDoesNotCount ==
  /\ missions # NoMissions
  /\ missions.list[1].status = "incomplete"
  /\ Cardinality(EarliestAssessments(missions.userId)) = 1
  /\ \E b \in AssessmentBookings(missions.userId) \ EarliestAssessments(missions.userId) :
        << b.event_id, missions.userId >> \in attendance

\* The confirmed scan bookings of a user, and the earliest of them.
ScanBookings(userId) ==
  {b \in BookingsOf(bookings, userId) :
     b.event_id \in DOMAIN events /\ events[b.event_id].event_type = "dexa_scan"}

EarliestScans(userId) ==
  {b \in ScanBookings(userId) :
     \A c \in ScanBookings(userId) :
        events[b.event_id].date_time <= events[c.event_id].date_time}

\* C21: in every list a call returns, mission 2 is locked if and only if
\* mission 1 of the list is not completed; when it is unlocked its status is
\* not_started if the user has no confirmed scan booking, and otherwise
\* completed if the earliest booked scan event is attended and incomplete
\* if it is not.
Mission2Rule ==
  missions # NoMissions =>
    LET m1 == missions.list[1]
        m2 == missions.list[2]
        att == attendanceByEventId(attendance, missions.userId)
    IN /\ m2.id = 2
       /\ m2.isLocked <=> m1.status # "completed"
       /\ ~m2.isLocked =>
            IF ScanBookings(missions.userId) = {}
            THEN m2.status = "not_started"
            ELSE \E b \in EarliestScans(missions.userId) :
                   m2.status = IF b.event_id \in att THEN "completed" ELSE "incomplete"

\* A list was returned with mission 2 unlocked and incomplete for a user
\* who attended a later scan event but not the earliest one.
LaterScanDoesNotCount ==
  /\ missions # NoMissions
  /\ ~missions.list[2].isLocked
  /\ missions.list[2].status = "incomplete"
  /\ \E b \in ScanBookings(missions.userId) \ EarliestScans(missions.userId) :
        << b.event_id, missions.userId >> \in attendance

\* The last mission of a list.
FinalMission(list) == list[Len(list)]

\* C22: in every list a call returns, the final mission is locked with status
\* not_started if the user has no confirmed assessment booking or now is
\* before the unlock date of the list, whatever is booked and attended; from
\* the unlock date on it is unlocked, and its status is not_started if no
\* assessment event that starts on or after the unlock date is booked,
\* completed if one of them is attended and incomplete otherwise.
FinalMissionRule ==
  missions # NoMissions =>
    LET m == FinalMission(missions.list)
        booked == AssessmentBookings(missions.userId)
        late == {b \in booked : events[b.event_id].date_time >= m.unlockDate}
        att == attendanceByEventId(attendance, missions.userId)
    IN /\ booked = {} <=> m.unlockDate = NoDate
       /\ IF booked = {} \/ now < m.unlockDate
          THEN m.isLocked /\ m.status = "not_started"
          ELSE /\ ~m.isLocked
               /\ m.status = IF late = {} THEN "not_started"
                             ELSE IF \E b \in late : b.event_id \in att
                                  THEN "completed" ELSE "incomplete"

\* A list was returned before its unlock date with the final mission locked
\* and not_started, for a user who has booked and attended an assessment
\* event that starts on or after the unlock date.
LockedDespiteLateAttendance ==
  /\ missions # NoMissions
  /\ FinalMission(missions.list).isLocked
  /\ FinalMission(missions.list).status = "not_started"
  /\ now < FinalMission(missions.list).unlockDate
  /\ \E b \in AssessmentBookings(missions.userId) :
        /\ events[b.event_id].date_time >= FinalMission(missions.list).unlockDate
        /\ << b.event_id, missions.userId >> \in attendance

\* C23 as stated: the unlock date of the final mission is the date of the
\* earliest booked assessment event with 3 added to its month, carrying the
\* year, on the same day of the month or else the last day of that month;
\* for 2024-01-31 it is 2024-04-30.
UnlockDateClamped ==
  missions # NoMissions =>
    LET m == FinalMission(missions.list)
        first == EarliestAssessments(missions.userId)
    IN IF first = {} THEN m.unlockDate = NoDate
       ELSE LET d == events[(CHOOSE b \in first : TRUE).event_id].date_time
                f == DateFields(d)
                g == DateFields(m.unlockDate)
                ty == f.year + ((f.month + 3) \div 12)
                tm == (f.month + 3) % 12
            IN /\ g.hours = f.hours
               /\ g.year = ty /\ g.month = tm
               /\ g.date = Min(f.date, DaysInMonth(ty, tm))
               /\ d = 30 * 24 + 10 => m.unlockDate = 120 * 24 + 10

\* C23 amended: the unlock date of the final mission is the date of the
\* earliest booked assessment event with 3 added to its month, carrying the
\* year; a day of the month that the target month does not have runs on into
\* the month after it; for 2024-01-31 it is 2024-05-01.  Without an assessment
\* booking there is no unlock date.
UnlockDateRule ==
  missions # NoMissions =>
    LET m == FinalMission(missions.list)
        first == EarliestAssessments(missions.userId)
    IN IF first = {} THEN m.unlockDate = NoDate
       ELSE LET d == events[(CHOOSE b \in first : TRUE).event_id].date_time
                f == DateFields(d)
                g == DateFields(m.unlockDate)
                ty == f.year + ((f.month + 3) \div 12)
                tm == (f.month + 3) % 12
                over == f.date - DaysInMonth(ty, tm)
            IN /\ g.hours = f.hours
               /\ IF over <= 0
                  THEN g.year = ty /\ g.month = tm /\ g.date = f.date
                  ELSE /\ g.year = ty + ((tm + 1) \div 12)
                       /\ g.month = (tm + 1) % 12
                       /\ g.date = over
               /\ d = 30 * 24 + 10 => m.unlockDate = 121 * 24 + 10

\* A list was returned for a user whose earliest booked assessment event is
\* on 2024-01-31, with 2024-05-01 as the unlock date of the final mission.
UnlockDateOverflows ==
  /\ missions # NoMissions
  /\ \E b \in EarliestAssessments(missions.userId) :
        DateFields(events[b.event_id].date_time) =
          [year |-> 2024, month |-> 0, date |-> 31, hours |-> 10]
  /\ DateFields(FinalMission(missions.list).unlockDate) =
       [year |-> 2024, month |-> 4, date |-> 1, hours |-> 10]

\* The confirmed touchpoint bookings of a user.
TouchpointBookings(userId) ==
  {b \in BookingsOf(bookings, userId) :
     b.event_id \in DOMAIN events /\ events[b.event_id].event_type = "touchpoints"}

\* The bookings of a set whose event the user has attended.
Attended(rows, userId) == {b \in rows : << b.event_id, userId >> \in attendance}

\* completed if the attended events reach the target, otherwise incomplete
\* if there is a booking, otherwise not_started.
StatusAgainst(attended, target, booked) ==
  IF attended >= target THEN "completed"
  ELSE IF booked > 0 THEN "incomplete" ELSE "not_started"

\* C24: in every list of the five-mission variant, missions 3 and 4 are
\* locked if and only if mission 2 is not completed, and then not_started;
\* with mission 2 completed, mission 3 is completed if at least 9 booked
\* touchpoint events are attended, otherwise incomplete if a touchpoint event
\* is booked, otherwise not_started, and mission 4 is completed if a booked
\* assessment event other than the earliest is attended, otherwise
\* incomplete if there is such a booking, otherwise not_started; a mission of
\* the two that is not not_started carries the progress text "attended/target
\* completed (booked booked)", one that is not_started carries none.
TwoMilestoneRule ==
  (missions # NoMissions /\ Len(missions.list) = 5) =>
    LET u == missions.userId
        m2 == missions.list[2]
        m3 == missions.list[3]
        m4 == missions.list[4]
        tp == TouchpointBookings(u)
        fun == AssessmentBookings(u)
        Text(a, t, b) == ToString(a) \o "/" \o ToString(t) \o " completed ("
                           \o ToString(b) \o " booked)"
    IN /\ m3.id = 3 /\ m4.id = 4
       /\ m3.isLocked <=> m2.status # "completed"
       /\ m4.isLocked <=> m2.status # "completed"
       /\ m2.status # "completed" => m3.status = "not_started" /\ m4.status = "not_started"
       /\ m2.status = "completed" =>
            m3.status = StatusAgainst(Cardinality(Attended(tp, u)), 9, Cardinality(tp))
       /\ m3.progress = IF m3.status = "not_started" THEN NoProgress
                        ELSE Text(Cardinality(Attended(tp, u)), 9, Cardinality(tp))
       /\ \E first \in (IF fun = {} THEN {NoBooking} ELSE EarliestAssessments(u)) :
            LET more == fun \ {first}
            IN /\ m2.status = "completed" =>
                    m4.status = StatusAgainst(Cardinality(Attended(more, u)), 1,
                                              Cardinality(more))
               /\ m4.progress = IF m4.status = "not_started" THEN NoProgress
                                ELSE Text(Cardinality(Attended(more, u)), 1,
                                          Cardinality(more))

\* A list was returned with mission 3 completed on 9 attended touchpoint
\* events of 10 booked, and mission 4 incomplete for a user who attended the
\* earliest assessment event and has booked, not attended, a second one.
NineOfTenAttended ==
  /\ missions # NoMissions /\ Len(missions.list) = 5
  /\ missions.list[3].status = "completed"
  /\ missions.list[3].progress = "9/9 completed (10 booked)"
  /\ missions.list[4].status = "incomplete"
  /\ missions.list[4].progress = "0/1 completed (1 booked)"

\* C25 as stated: for the events of the study there is a history of the
\* participant and a now on which the milestone of the four-mission variant
\* and a milestone of the five-mission variant (mission 3 or mission 4)
\* differ in the locked flag.
LockTimingDiffers ==
  \E h \in MilestoneHistories, t \in MilestoneTimes :
     \E order \in RowOrders(HistoryBookings(h)) :
        LET att == attendanceByEventId(HistoryAttendance(h), Participant)
            two == getUserMissions(order, events, att, t)
            one == getUserMissionsCombined(order, events, att, t)
        IN two[3].isLocked # one[3].isLocked \/ two[4].isLocked # one[3].isLocked

\* C25 amended: on the same rows, attendance records and now, the milestone
\* of the four-mission variant is locked exactly when missions 3 and 4 of the
\* five-mission variant are locked, and so are missions 1 and 2 and the final
\* mission of the two variants; where the variants differ is the status and
\* the progress text of the milestone.
LockTimingAgrees ==
  missions # NoMissions =>
    \A order \in RowOrders(BookingsOf(bookings, missions.userId)) :
       LET att == attendanceByEventId(attendance, missions.userId)
           two == getUserMissions(order, events, att, now)
           one == getUserMissionsCombined(order, events, att, now)
       IN /\ missions.list \in {two, one}
          /\ two[3].isLocked = one[3].isLocked
          /\ two[4].isLocked = one[3].isLocked
          /\ two[1].isLocked = one[1].isLocked
          /\ two[2].isLocked = one[2].isLocked
          /\ two[5].isLocked = one[4].isLocked

\* A list of the five-mission variant was returned with missions 3 and 4
\* unlocked and mission 3 completed, on data for which the four-mission
\* variant returns its milestone unlocked and incomplete.
VariantsDifferInStatus ==
  /\ missions # NoMissions /\ Len(missions.list) = 5
  /\ ~missions.list[3].isLocked /\ ~missions.list[4].isLocked
  /\ missions.list[3].status = "completed"
  /\ \E order \in RowOrders(BookingsOf(bookings, missions.userId)) :
        LET one == getUserMissionsCombined(order, events,
                     attendanceByEventId(attendance, missions.userId), now)
        IN ~one[3].isLocked /\ one[3].status = "incomplete"
             /\ one[3].progress # missions.list[3].progress

\* C26: every CreateBooking call that has started eventually returns a
\* result, whatever calls run beside it.
EveryCallReturns ==
  \A p \in Calls : (p \in InFlight) ~> (call[p].pc = "done")

\* Two calls have returned, of two users who each hold a confirmed booking of
\* the assessment day the other one asked for: one with the category
\* conflict, the other one aborted by the store because the two were waiting
\* for each other's row locks.
CrossedCallsReturned ==
  \E p \in Done, q \in Done :
     /\ call[p].user # call[q].user
     /\ ConfirmedFor(bookings, call[p].user, call[q].event) # {}
     /\ ConfirmedFor(bookings, call[q].user, call[p].event) # {}
     /\ call[p].result = Fail(InternalDeadlock)
     /\ call[q].result = Fail(CategoryConflict("fun_assessment_day"))

\* C27: a call of a user for themself for an event of the table returns
\* AlreadyBooked only if the user holds a confirmed booking of the event,
\* CategoryConflict only if the user holds a confirmed booking of an event of
\* that restricted type that is still ahead, and EventFull only if the
\* confirmed bookings of the event fill it; if none of the three is the
\* case and the event is still ahead the call succeeds, whatever cancelled
\* bookings are in the table.
CancelledDoesNotCount ==
  [][\A p \in Calls :
       (/\ Returns(p)
        /\ call'[p].requester = call'[p].user /\ call'[p].user # NoUser
        /\ call'[p].event \in DOMAIN events)
       => LET u == call'[p].user
              e == call'[p].event
              t == CallNow(p)
              live == {b \in bookings : b.status = "confirmed"}
              dup == \E b \in live : b.user_id = u /\ b.event_id = e
              same == /\ events[e].event_type \in {"fun_assessment_day", "dexa_scan"}
                      /\ \E b \in live :
                            /\ b.user_id = u
                            /\ events[b.event_id].event_type = events[e].event_type
                            /\ events[b.event_id].date_time >= t
              full == Cardinality({b \in live : b.event_id = e}) >= events[e].max_capacity
          IN /\ call'[p].result = Fail(AlreadyBooked) => dup
             /\ call'[p].result.error \in CategoryConflicts => same
             /\ call'[p].result = Fail(EventFull) => full
             /\ (~dup /\ ~same /\ ~full /\ events[e].date_time >= t)
                  => call'[p].result.success]_vars

\* A user holds the only seat of an event: the call that booked it returned
\* success, and the booking of the user who had the seat before is in the
\* table, cancelled.
FreedSeatTaken ==
  \E p \in Done, b \in bookings :
     /\ call[p].result.success
     /\ events[call[p].event].max_capacity = 1
     /\ ConfirmedCount(bookings, call[p].event) = 1
     /\ b.status = "cancelled"
     /\ b.event_id = call[p].event
     /\ b.user_id # call[p].user

\* C28: in every list a call of either variant returns, a mission that is
\* reported locked has status not_started.
LockedIsNotStarted ==
  missions # NoMissions =>
    \A k \in 1..Len(missions.list) :
       missions.list[k].isLocked => missions.list[k].status = "not_started"

\* A list was returned with every mission but the first one locked and
\* not_started, for a user who has attended a scan and a touchpoint event.
LockedWithAttendance ==
  /\ missions # NoMissions
  /\ \A k \in 2..Len(missions.list) :
        missions.list[k].isLocked /\ missions.list[k].status = "not_started"
  /\ \E b \in ScanBookings(missions.userId) :
        << b.event_id, missions.userId >> \in attendance
  /\ \E b \in BookingsOf(bookings, missions.userId) :
        /\ events[b.event_id].event_type = "touchpoints"
        /\ << b.event_id, missions.userId >> \in attendance

\* C29: a booking that a call creates for an assessment or scan event is
\* never for an event that starts before an event of that type of which the
\* user already holds a confirmed booking: the earliest booked event of the
\* type, and with it missions 1 and 2 and the unlock date, stay as they are.
EarliestEventKept ==
  [][\A b \in bookings' \ bookings :
       (b.status = "confirmed"
          /\ events[b.event_id].event_type \in {"fun_assessment_day", "dexa_scan"})
       => \A c \in bookings :
            (/\ c.status = "confirmed"
             /\ c.user_id = b.user_id
             /\ events[c.event_id].event_type = events[b.event_id].event_type)
            => events[c.event_id].date_time <= events[b.event_id].date_time]_vars

\* The history of the claim: the first assessment day and the scan attended,
\* ten touchpoint events booked and attended, no other assessment day booked.
TenTouchpointsOnly ==
  [touchBooked |-> 10, touchAttended |-> 10, F1 |-> "attended", F2 |-> "none",
   D1 |-> "attended"]

\* C30: on the same rows, attendance records and now, if missions 3 and 4 of
\* the five-mission variant are both completed then mission 3 of the
\* four-mission variant is completed; and not the other way round: for the
\* user who has attended ten touchpoint events and no assessment event but
\* the first, mission 3 of the four-mission variant is completed while
\* mission 4 of the five-mission variant is not.
SeparateImpliesCombined ==
  /\ missions # NoMissions =>
       \A order \in RowOrders(BookingsOf(bookings, missions.userId)) :
          LET att == attendanceByEventId(attendance, missions.userId)
              two == getUserMissions(order, events, att, now)
              one == getUserMissionsCombined(order, events, att, now)
          IN (two[3].status = "completed" /\ two[4].status = "completed")
               => one[3].status = "completed"
  /\ \A t \in MilestoneTimes :
       \A order \in RowOrders(HistoryBookings(TenTouchpointsOnly)) :
          LET att == attendanceByEventId(HistoryAttendance(TenTouchpointsOnly),
                                         Participant)
              two == getUserMissions(order, events, att, t)
              one == getUserMissionsCombined(order, events, att, t)
          IN /\ one[3].status = "completed"
             /\ two[3].status = "completed"
             /\ two[4].status # "completed"

\* A list of the five-mission variant was returned with missions 3 and 4
\* both completed, on 9 attended touchpoint events and an attended second
\* assessment day, and no more.
BothMilestonesCompleted ==
  /\ missions # NoMissions /\ Len(missions.list) = 5
  /\ missions.list[3].status = "completed"
  /\ missions.list[4].status = "completed"
  /\ Cardinality(Attended(TouchpointBookings(missions.userId), missions.userId)) = 9
  /\ Cardinality(Attended(AssessmentBookings(missions.userId), missions.userId)) = 2

====
